---- MODULE Spec2Model ----
(***************************************************************************)
(* A model of the path tracer of src/main.cpp: the Sphere3 constructors,   *)
(* Sphere3::intersects, Sphere3::get_next_ray, the scene query and the     *)
(* recursion of ray_recur, and the render loop of main.                    *)
(*                                                                         *)
(* Numbers.  A C++ double is modelled on a fixed grid: lengths and ray     *)
(* parameters t are integers in units of 0.001 (so min_dist_threshold,     *)
(* 0.001, is 1), colour channels are integers in units of 1/510 (so 1.0 is *)
(* 510 and every colour of main.cpp's background is exact).  sqrt rounds   *)
(* down to the grid.  NaN and +infinity are two values outside the grid;   *)
(* arithmetic propagates NaN and every comparison with NaN is false, as in *)
(* IEEE 754.                                                               *)
(*                                                                         *)
(* Directions.  Ray directions are unit vectors (generate_ray and          *)
(* get_next_ray normalise them); on the integer grid these are the six     *)
(* axis directions.  Where the code draws a direction at random            *)
(* (normal_double, random_double) or computes it with real-valued          *)
(* trigonometry, the model chooses any of the six: every direction the     *)
(* code can produce is rounded to one the model can.                       *)
(***************************************************************************)
EXTENDS Integers, Sequences, FiniteSets, TLC

VARIABLES
    hittables,       \* std::vector<Hittable*> hittables, the scene
    width,           \* img.width
    height,          \* img.height
    y_pixel,         \* main: outer loop variable
    x_pixel,         \* main: inner loop variable
    i,               \* main: index of the antialiasing sample
    running_colour,  \* main: the accumulator of the current pixel
    pc,              \* where the program is
    n,               \* ray_recur: remaining depth of the active call
    ray,             \* ray_recur: the ray of the active call
    t,               \* ray_recur: t of the closest intersection
    smallest_idx,    \* ray_recur: index of the closest surface, -1 for none
    stack,           \* the ray_recur calls waiting for their recursive call
    ret,             \* the colour the last ray_recur call returned
    refraction_ratio,\* get_next_ray: the ratio chosen by the last glass hit
    normal_flipped,  \* get_next_ray: whether the last glass hit flipped the normal
    cerr,            \* number of messages written to std::cerr
    image_writes,    \* img.image: how often each element was written (the values
                     \* written are 255 * running_colour of the state after the write)
    set_pixel_log,   \* every (column, row) set_pixel was called with, in order
    samples,         \* history: the samples accumulated for the pixel
    primary,         \* history: the pixel the last camera ray was generated for
    queries,         \* history: scene queries of the current evaluation
    scatters,        \* history: get_next_ray calls of the current evaluation
    n_antialias,     \* main: samples per pixel
    recur_max        \* main: the depth ray_recur is started with

vars == <<hittables, width, height, y_pixel, x_pixel, i, running_colour, pc,
          n, ray, t, smallest_idx, stack, ret, refraction_ratio, normal_flipped, cerr,
          image_writes, set_pixel_log, samples, primary, queries, scatters,
          n_antialias, recur_max>>

----------------------------------------------------------------------------
(* Bounds of the model and constants of the program. *)

\* Largest recursion depth a render is started with (main.cpp passes 50).
MaxDepth == 3
\* Largest number of samples per pixel (main.cpp takes 200).
MaxSamples == 2
\* Width and height of the image (main.cpp renders 1920 x 1080).
MaxWidth == 3
MaxHeight == 2
\* random_double() takes the values 0, 1/JitterGrid, ..., below 1.
JitterGrid == 2

\* 0.001 in units of 0.001
min_dist_threshold == 1

\* One colour unit is 1/510: 1.0 is ColourOne.
ColourOne == 2 * 255

\* IEEE 754 values outside the grid.
NaN == -1000000
Infinity == 1000000

IsNaN(x) == x = NaN

----------------------------------------------------------------------------
(* double arithmetic on the grid *)

fAdd(a, b) == IF IsNaN(a) \/ IsNaN(b) THEN NaN ELSE a + b
fSub(a, b) == IF IsNaN(a) \/ IsNaN(b) THEN NaN ELSE a - b
fMul(a, b) == IF IsNaN(a) \/ IsNaN(b) THEN NaN ELSE a * b
fNeg(a) == IF IsNaN(a) THEN NaN ELSE 0 - a
fLt(a, b) == ~IsNaN(a) /\ ~IsNaN(b) /\ a < b
fGt(a, b) == ~IsNaN(a) /\ ~IsNaN(b) /\ a > b

\* Division rounding towards zero; x/0 is NaN for x = 0 and +-infinity otherwise.
fDiv(a, b) ==
    IF IsNaN(a) \/ IsNaN(b) THEN NaN
    ELSE IF b = 0 THEN (IF a = 0 THEN NaN ELSE IF a > 0 THEN Infinity ELSE 0 - Infinity)
    ELSE IF (a >= 0) = (b > 0) THEN (IF a >= 0 THEN a \div b ELSE (0 - a) \div (0 - b))
    ELSE 0 - ((IF a >= 0 THEN a ELSE 0 - a) \div (IF b >= 0 THEN b ELSE 0 - b))

RECURSIVE ISqrtBetween(_, _, _)
ISqrtBetween(lo, hi, x) ==
    IF lo >= hi THEN lo
    ELSE LET mid == (lo + hi + 1) \div 2
         IN IF mid * mid <= x THEN ISqrtBetween(mid, hi, x)
            ELSE ISqrtBetween(lo, mid - 1, x)

\* sqrt, rounded down to the grid; NaN for a negative argument.
fSqrt(x) == IF IsNaN(x) \/ x < 0 THEN NaN ELSE ISqrtBetween(0, IF x < 1024 THEN 32 ELSE 1024, x)

----------------------------------------------------------------------------
(* gmath: Vec3 and Colour *)

Vec3(x, y, z) == <<x, y, z>>
Zero == Vec3(0, 0, 0)
NaNVec == Vec3(NaN, NaN, NaN)

VAdd(u, v) == Vec3(fAdd(u[1], v[1]), fAdd(u[2], v[2]), fAdd(u[3], v[3]))
VSub(u, v) == Vec3(fSub(u[1], v[1]), fSub(u[2], v[2]), fSub(u[3], v[3]))
VScale(k, v) == Vec3(fMul(k, v[1]), fMul(k, v[2]), fMul(k, v[3]))
dot(u, v) == fAdd(fAdd(fMul(u[1], v[1]), fMul(u[2], v[2])), fMul(u[3], v[3]))
abs2(v) == dot(v, v)

\* Vec3::unit of a direction of the model: an axis direction is its own unit
\* vector, and the zero vector (0/0) and a NaN vector give NaN.
unit(v) == IF abs2(v) = 1 THEN v ELSE NaNVec

\* The unit vectors of the grid.
Directions ==
    {Vec3(1, 0, 0), Vec3(-1, 0, 0), Vec3(0, 1, 0), Vec3(0, -1, 0), Vec3(0, 0, 1), Vec3(0, 0, -1)}

\* Colours: component-wise, in units of 1/ColourOne.
Colour(r, g, b) == <<r, g, b>>
Black == Colour(0, 0, 0)
White == Colour(ColourOne, ColourOne, ColourOne)

CAdd(u, v) == VAdd(u, v)
\* operator*(Vec3, Vec3): the component-wise product
CMul(u, v) ==
    Colour(fDiv(fMul(u[1], v[1]), ColourOne), fDiv(fMul(u[2], v[2]), ColourOne),
           fDiv(fMul(u[3], v[3]), ColourOne))
\* operator/=(double) with a whole number
CDivInt(u, k) == Colour(fDiv(u[1], k), fDiv(u[2], k), fDiv(u[3], k))
\* operator*(double, Vec3) with a whole number
CScaleInt(k, u) == VScale(k, u)
\* pow(u, 0.5)
CSqrt(u) ==
    Colour(fSqrt(fMul(u[1], ColourOne)), fSqrt(fMul(u[2], ColourOne)),
           fSqrt(fMul(u[3], ColourOne)))

----------------------------------------------------------------------------
(* Line3 *)

Line3(point, direction) == [p |-> point, d |-> direction]
\* Line3::operator(): the position at t
At(l, tt) == VAdd(l.p, VScale(tt, l.d))

----------------------------------------------------------------------------
(* Material, Hittable and Sphere3 *)

\* enum class Material, and a value that is none of its enumerators
Materials == {"matte", "metal", "glass"}
MaterialValues == Materials \cup {"other"}

\* double refractive_index{1.5}, as numerator and denominator
RefractiveIndex == <<3, 2>>
Inverse(q) == <<q[2], q[1]>>

\* The member initialisers of Hittable, before any constructor body runs.
HittableMembers ==
    [material |-> "matte", reflectance |-> Colour(255, 255, 255), fuzz |-> 0,
     refractive_index |-> RefractiveIndex]

\* setup that leaves the reflectance as constructed
setupKeeps(h) == h

\* Hittable::setup
setup(h) == IF h.material = "glass" THEN [h EXCEPT !.reflectance = White] ELSE h

\* Hittable()
Hittable0 == HittableMembers
\* Hittable(Material)
Hittable1(material) == setup([HittableMembers EXCEPT !.material = material])
\* Hittable(Material, Colour, double)
Hittable3(material, reflectance, fuzz) ==
    setup([HittableMembers EXCEPT !.material = material, !.reflectance = reflectance,
                                  !.fuzz = fuzz])

\* What a Sphere3 adds to its Hittable; ctor and arg_reflectance record how the
\* object was constructed.
SphereOf(h, centre, radius, hollow, ctor, arg) ==
    [material |-> h.material, reflectance |-> h.reflectance, fuzz |-> h.fuzz,
     refractive_index |-> h.refractive_index, p |-> centre, r |-> radius,
     is_hollow |-> hollow, ctor |-> ctor, arg_reflectance |-> arg]

\* What a read of a bool that no constructor initialised can give.
Indeterminate == BOOLEAN

\* Sphere3(): is_hollow is not initialised
Sphere3_0 == {SphereOf(Hittable0, Zero, 0, b, "default", Black) : b \in Indeterminate}
\* Sphere3(centre, radius): is_hollow is not initialised
Sphere3_2(centre, radius) ==
    {SphereOf(Hittable0, centre, radius, b, "centre_radius", Black) : b \in Indeterminate}
\* Sphere3(centre, radius, material): is_hollow is not initialised
Sphere3_3(centre, radius, material) ==
    {SphereOf(Hittable1(material), centre, radius, b, "centre_radius_material", Black) :
        b \in Indeterminate}
\* Sphere3(centre, radius, material, reflectance, fuzz), is_hollow defaulted
Sphere3_5(centre, radius, material, reflectance, fuzz) ==
    {SphereOf(Hittable3(material, reflectance, fuzz), centre, radius, FALSE, "full",
              reflectance)}
\* Sphere3(centre, radius, material, reflectance, fuzz, is_hollow)
Sphere3_6(centre, radius, material, reflectance, fuzz, is_hollow) ==
    {SphereOf(Hittable3(material, reflectance, fuzz), centre, radius, is_hollow,
              "full_is_hollow", reflectance)}

\* intersects with the smaller root compared with 0
intersectsPositive(s, l) ==
    LET oc == VSub(l.p, s.p)
        a == abs2(l.d)
        half_b == dot(oc, l.d)
        c == fSub(abs2(oc), fMul(s.r, s.r))
        discriminant == fSub(fMul(half_b, half_b), fMul(a, c))
    IN IF fLt(discriminant, 0) THEN -1
       ELSE LET smaller == fDiv(fSub(fNeg(half_b), fSqrt(discriminant)), a)
            IN IF fGt(smaller, 0) THEN smaller
               ELSE fDiv(fAdd(fNeg(half_b), fSqrt(discriminant)), a)

\* Sphere3::intersects
intersects(s, l) ==
    LET oc == VSub(l.p, s.p)
        a == abs2(l.d)
        half_b == dot(oc, l.d)
        c == fSub(abs2(oc), fMul(s.r, s.r))
        discriminant == fSub(fMul(half_b, half_b), fMul(a, c))
    IN IF fLt(discriminant, 0) THEN -1
       ELSE LET smaller == fDiv(fSub(fNeg(half_b), fSqrt(discriminant)), a)
            IN IF fGt(smaller, min_dist_threshold) THEN smaller
               ELSE fDiv(fAdd(fNeg(half_b), fSqrt(discriminant)), a)

\* GlassRatio with the two ratios exchanged
GlassRatioExchanged(s, normal_unit, d) ==
    IF fGt(dot(normal_unit, d), 0)
    THEN [flipped |-> TRUE,
          ratio |-> IF s.is_hollow THEN s.refractive_index ELSE Inverse(s.refractive_index)]
    ELSE [flipped |-> FALSE,
          ratio |-> IF s.is_hollow THEN Inverse(s.refractive_index) ELSE s.refractive_index]

\* The choice of the glass branch of get_next_ray: whether the normal is flipped,
\* and the refraction ratio.
GlassRatio(s, normal_unit, d) ==
    IF fGt(dot(normal_unit, d), 0)
    THEN [flipped |-> TRUE,
          ratio |-> IF s.is_hollow THEN Inverse(s.refractive_index) ELSE s.refractive_index]
    ELSE [flipped |-> FALSE,
          ratio |-> IF s.is_hollow THEN s.refractive_index ELSE Inverse(s.refractive_index)]

\* The normal of sphere s at the point t of line l.  Only its direction is used
\* below, so it is left at length r; (ray(t) - p).unit() is NaN when ray(t) = p.
NormalAt(s, l, tt) ==
    LET v == VSub(At(l, tt), s.p) IN IF v = Zero THEN NaNVec ELSE v

\* The directions ret_ray.d.unit() can take once a direction was drawn or
\* computed from a normal.
Scattered(normal_unit) == IF normal_unit = NaNVec THEN {NaNVec} ELSE Directions

\* Sphere3::get_next_ray: every result it can give, each with the refraction
\* ratio it computed ("none" outside the glass branch) and whether it wrote to
\* std::cerr.
get_next_ray(s, l, tt) ==
    LET normal_unit == NormalAt(s, l, tt)
    IN CASE s.material = "matte" ->
              {[ray |-> Line3(At(l, tt), d), ratio |-> "none", flipped |-> FALSE, error |-> FALSE] :
                  d \in Scattered(normal_unit)}
         [] s.material = "metal" ->
              {[ray |-> Line3(At(l, tt), d), ratio |-> "none", flipped |-> FALSE, error |-> FALSE] :
                  d \in Scattered(normal_unit)}
         [] s.material = "glass" ->
              {[ray |-> Line3(At(l, tt), d), ratio |-> GlassRatio(s, normal_unit, l.d).ratio,
                flipped |-> GlassRatio(s, normal_unit, l.d).flipped, error |-> FALSE] :
                  d \in Scattered(normal_unit)}
         [] OTHER ->
              {[ray |-> Line3(Zero, Zero), ratio |-> "none", flipped |-> FALSE,
                error |-> TRUE]}

----------------------------------------------------------------------------
(* ray_recur: the scene query *)

\* ClosestFrom with <= for <: of equal intersections the last one is kept
RECURSIVE ClosestFromLastWins(_, _, _, _)
ClosestFromLastWins(k, l, tt, idx) ==
    IF k >= Len(hittables) THEN [t |-> tt, smallest_idx |-> idx]
    ELSE LET intersect_t == intersects(hittables[k + 1], l)
         IN IF (fLt(intersect_t, tt) \/ intersect_t = tt)
               /\ fGt(intersect_t, min_dist_threshold)
            THEN ClosestFromLastWins(k + 1, l, intersect_t, k)
            ELSE ClosestFromLastWins(k + 1, l, tt, idx)

\* The loop over hittables from index k (0-based) on, with t and smallest_idx as
\* they are when the loop reaches k.
RECURSIVE ClosestFrom(_, _, _, _)
ClosestFrom(k, l, tt, idx) ==
    IF k >= Len(hittables) THEN [t |-> tt, smallest_idx |-> idx]
    ELSE LET intersect_t == intersects(hittables[k + 1], l)
         IN IF fLt(intersect_t, tt) /\ fGt(intersect_t, min_dist_threshold)
            THEN ClosestFrom(k + 1, l, intersect_t, k)
            ELSE ClosestFrom(k + 1, l, tt, idx)

Closest(l) == ClosestFrom(0, l, Infinity, -1)

\* The colour of the sky for a ray that hits nothing.
\* t = 0.5*(ray.d.unit().z + 1.0); (1.0-t)*white + t*sky_blue, sky_blue = (25,114,255)/255
SkyBlue == Colour(2 * 25, 2 * 114, 2 * 255)
Background(l) ==
    LET z == unit(l.d)[3]
        t2 == fAdd(z, 1)   \* 2*t
        mix(w, s) == fDiv(fAdd(fMul(fSub(2, t2), w), fMul(t2, s)), 2)
    IN Colour(mix(White[1], SkyBlue[1]), mix(White[2], SkyBlue[2]), mix(White[3], SkyBlue[3]))

----------------------------------------------------------------------------
(* The scenes and cameras the model renders *)

\* Centres and the radius of the spheres of a scene, in units of 0.001.
Centres == {Vec3(0, 0, 0), Vec3(4, 0, 0)}
Radius == 2
\* A reflectance passed to a constructor: Colour(0.8, 0.8, 0.8).
ReflectanceArg == Colour(408, 408, 408)

\* Every sphere some constructor call can build.
AllSpheres ==
    Sphere3_0
    \cup UNION {Sphere3_2(c, Radius) : c \in Centres}
    \cup UNION {Sphere3_3(c, Radius, m) : c \in Centres, m \in MaterialValues}
    \cup UNION {Sphere3_5(c, Radius, m, ReflectanceArg, 0) : c \in Centres, m \in MaterialValues}
    \cup UNION {Sphere3_6(c, Radius, m, ReflectanceArg, 0, h) :
                  c \in Centres, m \in MaterialValues, h \in BOOLEAN}

\* A second sphere, touching the sphere at the origin and equal to the one at (4,0,0).
SecondSpheres == Sphere3_5(Vec3(4, 0, 0), Radius, "matte", ReflectanceArg, 0)

\* Scenes of at most two spheres.
Scenes ==
    {<<>>} \cup {<<a>> : a \in AllSpheres}
    \cup {<<a, b>> : a \in AllSpheres, b \in SecondSpheres}

\* The scenes main is run on: built, as in main, with the long constructor.
RenderScenes ==
    {<<>>}
    \cup {<<a>> : a \in Sphere3_5(Zero, Radius, "matte", ReflectanceArg, 0)}
    \cup {<<a, b>> : a \in Sphere3_5(Zero, Radius, "glass", ReflectanceArg, 0),
                     b \in Sphere3_6(Zero, 1, "glass", ReflectanceArg, 0, TRUE)}

\* Where a ray of the camera starts: Camera::origin, or a point of the defocus disc.
CameraOrigin == Vec3(0, -4, 0)
\* Where the rays of a single evaluation of ray_recur start.
RayOrigins == {Vec3(-4, 0, 0), Vec3(-3, 0, 0), Vec3(0, 0, 0), Vec3(2, -3, 0)}

\* Camera::generate_ray: the direction is normalised; the jitter and the
\* defocus offset are random.
generate_ray(x_pos, y_pos) == {Line3(CameraOrigin, d) : d \in Directions}

\* random_double(): a uniform draw of [0, 1), in units of 1 / JitterGrid
random_double == 0 .. (JitterGrid - 1)

\* (pixel + random_double()) / size - 0.5, in units of 1 / (2 * JitterGrid * size)
ViewportPos(pixel, u, size) == 2 * (pixel * JitterGrid + u) - JitterGrid * size

\* The pixel whose footprint holds the viewport position pos
PixelAt(pos, size) == (pos + JitterGrid * size) \div (2 * JitterGrid)

----------------------------------------------------------------------------
(* The render loop of main *)

NoRatio == "none"
\* No primary ray was generated yet.
NoPrimary == [x_pixel |-> -1, y_pixel |-> -1]

Init ==
    /\ hittables \in RenderScenes
    /\ width = MaxWidth
    /\ height = MaxHeight
    /\ n_antialias \in 1 .. MaxSamples
    /\ recur_max \in 1 .. MaxDepth
    /\ y_pixel = 0
    /\ x_pixel = 0
    /\ i = 0
    /\ running_colour = Black
    /\ pc = "pixel"
    /\ n = 0
    /\ ray = Line3(Zero, Zero)
    /\ t = Infinity
    /\ smallest_idx = -1
    /\ stack = <<>>
    /\ ret = Black
    /\ refraction_ratio = NoRatio
    /\ normal_flipped = FALSE
    /\ cerr = 0
    /\ image_writes = [k \in 0 .. (width * height * 3 - 1) |-> 0]
    /\ set_pixel_log = <<>>
    /\ samples = <<>>
    /\ primary = NoPrimary
    /\ queries = 0
    /\ scatters = 0

\* x_trace = y_trace = -1: the pixel that is traced
do_trace == x_pixel = -1 /\ y_pixel = -1

\* The accumulator left as the pixel before left it
StaleAccumulator == running_colour

\* Colour running_colour{0,0,0}
FreshAccumulator == Black

\* The top of the body of the pixel loops, up to the sample loop
BeginPixel ==
    /\ pc = "pixel"
    /\ y_pixel < height /\ x_pixel < width
    /\ running_colour' = FreshAccumulator
    /\ i' = 0
    /\ samples' = <<>>
    /\ pc' = "sample"
    /\ UNCHANGED <<hittables, width, height, y_pixel, x_pixel, n, ray, t, smallest_idx,
                   stack, ret, refraction_ratio, normal_flipped, cerr, image_writes,
                   set_pixel_log, queries, scatters, n_antialias, recur_max, primary>>

\* One turn of the sample loop up to the call ray_recur(50, ray, do_trace)
Sample ==
    /\ pc = "sample"
    /\ i < n_antialias
    /\ \E u \in random_double, v \in random_double :
          LET x_pos == ViewportPos(x_pixel, u, width)
              y_pos == ViewportPos(y_pixel, v, height)
          IN /\ ray' \in generate_ray(x_pos, y_pos)
             /\ primary' = [x_pixel |-> PixelAt(x_pos, width),
                            y_pixel |-> PixelAt(y_pos, height)]
    /\ n' = recur_max
    /\ stack' = <<>>
    /\ queries' = 0
    /\ scatters' = 0
    /\ pc' = "recur"
    /\ UNCHANGED <<hittables, width, height, y_pixel, x_pixel, i, running_colour, t,
                   smallest_idx, ret, refraction_ratio, normal_flipped, cerr, image_writes,
                   set_pixel_log, samples, n_antialias, recur_max>>

----------------------------------------------------------------------------
(* ray_recur *)

\* The call waiting for its recursive call to return.
Frame == [n |-> n, ray |-> ray, t |-> Closest(ray).t, smallest_idx |-> Closest(ray).smallest_idx]

\* Exhausted with the test n == 0
ExhaustedAtZero(k) == k = 0

\* NextDepth without the decrement
NextDepthSame(k) == k

\* if (n == 1): the recursion budget is used up
Exhausted(k) == k = 1

\* The depth of the recursive call made by a call of depth k.
NextDepth(k) == k - 1

\* The factor a call applies to the colour its recursive call returned.
Attenuation(idx) == hittables[idx + 1].reflectance

\* ray_recur, nothing hit: the colour of the sky
RayRecurSky ==
    /\ pc = "recur"
    /\ Closest(ray).smallest_idx = -1
    /\ t' = Closest(ray).t
    /\ smallest_idx' = -1
    /\ queries' = queries + 1
    /\ ret' = Background(ray)
    /\ pc' = "return"
    /\ UNCHANGED <<hittables, width, height, y_pixel, x_pixel, i, running_colour, n, ray,
                   stack, refraction_ratio, normal_flipped, cerr, image_writes, set_pixel_log,
                   samples, primary, scatters, n_antialias, recur_max>>

\* ray_recur, a surface hit with n = 1: black
RayRecurAbsorb ==
    /\ pc = "recur"
    /\ Closest(ray).smallest_idx # -1
    /\ Exhausted(n)
    /\ t' = Closest(ray).t
    /\ smallest_idx' = Closest(ray).smallest_idx
    /\ queries' = queries + 1
    /\ ret' = Black
    /\ pc' = "return"
    /\ UNCHANGED <<hittables, width, height, y_pixel, x_pixel, i, running_colour, n, ray,
                   stack, refraction_ratio, normal_flipped, cerr, image_writes, set_pixel_log,
                   samples, primary, scatters, n_antialias, recur_max>>

\* ray_recur, a surface hit with n # 1: get_next_ray and the recursive call
RayRecurScatter ==
    /\ pc = "recur"
    /\ Closest(ray).smallest_idx # -1
    /\ ~Exhausted(n)
    /\ \E next \in get_next_ray(hittables[Closest(ray).smallest_idx + 1], ray, Closest(ray).t) :
          /\ ray' = next.ray
          /\ refraction_ratio' = IF next.ratio = NoRatio THEN refraction_ratio ELSE next.ratio
          /\ normal_flipped' = IF next.ratio = NoRatio THEN normal_flipped ELSE next.flipped
          /\ cerr' = IF next.error THEN cerr + 1 ELSE cerr
    /\ stack' = Append(stack, Frame)
    /\ n' = NextDepth(n)
    /\ t' = Closest(ray).t
    /\ smallest_idx' = Closest(ray).smallest_idx
    /\ queries' = queries + 1
    /\ scatters' = scatters + 1
    /\ pc' = "recur"
    /\ UNCHANGED <<hittables, width, height, y_pixel, x_pixel, i, running_colour, ret,
                   image_writes, set_pixel_log, samples, primary, n_antialias, recur_max>>

\* return closest_item_ptr->reflectance * ray_recur(n-1, next_ray, do_trace)
RayRecurReturn ==
    /\ pc = "return"
    /\ stack # <<>>
    /\ LET f == stack[Len(stack)]
       IN /\ ret' = CMul(Attenuation(f.smallest_idx), ret)
          /\ n' = f.n
          /\ ray' = f.ray
          /\ t' = f.t
          /\ smallest_idx' = f.smallest_idx
    /\ stack' = SubSeq(stack, 1, Len(stack) - 1)
    /\ pc' = "return"
    /\ UNCHANGED <<hittables, width, height, y_pixel, x_pixel, i, running_colour,
                   refraction_ratio, normal_flipped, cerr, image_writes, set_pixel_log, samples, primary,
                   queries, scatters, n_antialias, recur_max>>

----------------------------------------------------------------------------
(* main, after ray_recur returned *)

\* running_colour += ray_recur(50, ray, do_trace), and i++
Accumulate ==
    /\ pc = "return"
    /\ stack = <<>>
    /\ running_colour' = CAdd(running_colour, ret)
    /\ samples' = Append(samples, [colour |-> ret, x_pixel |-> primary.x_pixel,
                                   y_pixel |-> primary.y_pixel, depth |-> n])
    /\ i' = i + 1
    /\ pc' = "sample"
    /\ UNCHANGED <<hittables, width, height, y_pixel, x_pixel, n, ray, t, smallest_idx,
                   stack, ret, refraction_ratio, normal_flipped, cerr, image_writes,
                   set_pixel_log, queries, scatters, n_antialias, recur_max, primary>>

\* The divisor of running_colour /= n_antialias + 1
Divisor == n_antialias + 1

\* The sample loop is left: running_colour /= n_antialias + 1
AveragePixel ==
    /\ pc = "sample"
    /\ ~(i < n_antialias)
    /\ running_colour' = CDivInt(running_colour, Divisor)
    /\ pc' = "gamma"
    /\ UNCHANGED <<hittables, width, height, y_pixel, x_pixel, i, n, ray, t, smallest_idx,
                   stack, ret, refraction_ratio, normal_flipped, cerr, image_writes,
                   set_pixel_log, samples, primary, queries, scatters, n_antialias, recur_max>>

\* OutputRow without the - 1
OutputRowOffByOne(y) == height - y

\* The row set_pixel is called with for the row y of the loop
OutputRow(y) == height - y - 1

\* ImageVec::set_pixel: the three elements it writes
PixelElements(column, row) ==
    LET start_idx == row * width * 3 + column * 3
    IN {start_idx, start_idx + 1, start_idx + 2}

\* The colour main passes to set_pixel
OutputColour(c) == IF do_trace THEN Colour(0, 255 * ColourOne, 0) ELSE CScaleInt(255, c)

\* Gamma correction, set_pixel, and the steps of the two pixel loops
WritePixel ==
    /\ pc = "gamma"
    /\ running_colour' = CSqrt(running_colour)
    /\ LET column == x_pixel
           row == OutputRow(y_pixel)
       IN /\ image_writes' =
                 [k \in DOMAIN image_writes |->
                     IF k \in PixelElements(column, row) THEN image_writes[k] + 1
                     ELSE image_writes[k]]
          /\ set_pixel_log' = Append(set_pixel_log, <<column, row>>)
    /\ IF x_pixel + 1 < width
       THEN x_pixel' = x_pixel + 1 /\ y_pixel' = y_pixel /\ pc' = "pixel"
       ELSE /\ x_pixel' = 0
            /\ y_pixel' = y_pixel + 1
            /\ pc' = IF y_pixel + 1 < height THEN "pixel" ELSE "done"
    /\ UNCHANGED <<hittables, width, height, i, n, ray, t, smallest_idx, stack, ret,
                   refraction_ratio, normal_flipped, cerr, samples, primary, queries, scatters, n_antialias,
                   recur_max>>

ray_recur == RayRecurSky \/ RayRecurAbsorb \/ RayRecurScatter \/ RayRecurReturn

Next == BeginPixel \/ Sample \/ ray_recur \/ Accumulate \/ AveragePixel \/ WritePixel

Spec == Init /\ [][Next]_vars

----------------------------------------------------------------------------
(* A single evaluation of ray_recur, on any scene and any ray *)

\* The start of one evaluation of ray_recur on a scene of the set scenes.
InitRayOn(scenes) ==
    /\ hittables \in scenes
    /\ width = 1
    /\ height = 1
    /\ n_antialias = 1
    /\ recur_max \in 1 .. MaxDepth
    /\ y_pixel = 0
    /\ x_pixel = 0
    /\ i = 0
    /\ running_colour = Black
    /\ pc = "recur"
    /\ n = recur_max
    /\ ray \in {Line3(o, d) : o \in RayOrigins, d \in Directions}
    /\ t = Infinity
    /\ smallest_idx = -1
    /\ stack = <<>>
    /\ ret = Black
    /\ refraction_ratio = NoRatio
    /\ normal_flipped = FALSE
    /\ cerr = 0
    /\ image_writes = [k \in 0 .. 2 |-> 0]
    /\ set_pixel_log = <<>>
    /\ samples = <<>>
    /\ primary = NoPrimary
    /\ queries = 0
    /\ scatters = 0

InitRay == InitRayOn(Scenes)

SpecRay == InitRay /\ [][ray_recur]_vars

----------------------------------------------------------------------------
(* C1 *)

\* The pixels of the image.
Grid == {<<c, r>> : c \in 0 .. (width - 1), r \in 0 .. (height - 1)}

\* The coordinate written at the k-th position (from 1) of the pixel loops.
LoopCoordinate(k) == <<(k - 1) % width, height - ((k - 1) \div width) - 1>>

\* C1: set_pixel is never called outside the grid and never twice for a
\* coordinate; the call of loop position (x_pixel, y_pixel) is for
\* (x_pixel, height - y_pixel - 1); no element of the buffer is written twice;
\* and when the loops are done every coordinate was written exactly once.
C1_EveryPixelOnce ==
    /\ \A k \in 1 .. Len(set_pixel_log) :
          /\ set_pixel_log[k] \in Grid
          /\ set_pixel_log[k] = LoopCoordinate(k)
    /\ \A j, k \in 1 .. Len(set_pixel_log) : j # k => set_pixel_log[j] # set_pixel_log[k]
    /\ \A e \in DOMAIN image_writes : image_writes[e] <= 1
    /\ pc = "done" =>
          /\ \A g \in Grid :
                Cardinality({k \in 1 .. Len(set_pixel_log) : set_pixel_log[k] = g}) = 1
          /\ \A e \in DOMAIN image_writes : image_writes[e] = 1

\* The render of an image of more than one row and column is complete.
C1_Witness ==
    /\ pc = "done"
    /\ width > 1 /\ height > 1
    /\ Len(set_pixel_log) = width * height

----------------------------------------------------------------------------
(* C2 *)

\* Some surface has an intersection beyond the threshold.
HasValidHit(l) ==
    \E k \in 1 .. Len(hittables) : fGt(intersects(hittables[k], l), min_dist_threshold)

\* C2: a call with n = 1 whose ray has a valid hit returns black, whatever the
\* material, and made neither a get_next_ray call nor a recursive call: the
\* evaluation's get_next_ray calls and scene queries are those of its callers
\* and its own one query.
C2_DepthOneReturnsBlack ==
    (pc = "return" /\ n = 1 /\ HasValidHit(ray)) =>
        /\ ret = Black
        /\ scatters = Len(stack)
        /\ queries = Len(stack) + 1

\* A call with n = 1 returned from a hit on a glass surface.
C2_Witness ==
    /\ pc = "return" /\ n = 1 /\ HasValidHit(ray)
    /\ smallest_idx # -1
    /\ hittables[smallest_idx + 1].material = "glass"
    /\ stack # <<>>

----------------------------------------------------------------------------
(* C3 *)

\* The depths of the calls of an evaluation started with depth recur_max.
DepthsDescend ==
    /\ \A k \in 1 .. Len(stack) : stack[k].n = recur_max - (k - 1)
    /\ n = recur_max - Len(stack)
    /\ n >= 1
    /\ queries <= recur_max

\* The evaluation has returned to its caller.
Evaluated == pc = "return" /\ stack = <<>>

\* What is left of an evaluation: the scene queries of its budget not yet made,
\* and the calls that have not returned.
Remaining == 2 * (recur_max - queries) + Len(stack) + (IF pc = "recur" THEN 1 ELSE 0)

\* C3: every recursive call has a depth one less than its caller's, no call has
\* a depth below 1, and an evaluation started with depth n makes at most n scene
\* queries; it terminates: what is left of it is never negative and every step
\* of it leaves less.
C3_Terminates ==
    /\ [](pc \in {"recur", "return"} => DepthsDescend /\ Remaining >= 0)
    /\ [][Remaining' < Remaining]_vars

\* An evaluation used its whole budget: as many scene queries as its depth.
C3_Witness == Evaluated /\ recur_max > 1 /\ queries = recur_max

----------------------------------------------------------------------------
(* C4 *)

\* The intersection of the ray with surface k (from 0), and whether it is valid.
IntersectAt(k, l) == intersects(hittables[k + 1], l)
Valid(k, l) == fGt(IntersectAt(k, l), min_dist_threshold)
Indices == 0 .. (Len(hittables) - 1)

\* idx and tt are the closest valid intersection of l: the smallest valid t, of
\* the surface of lowest index among those that have it; -1 when none is valid.
IsClosest(l, idx, tt) ==
    IF \E k \in Indices : Valid(k, l)
    THEN /\ idx \in Indices
         /\ Valid(idx, l)
         /\ tt = IntersectAt(idx, l)
         /\ \A k \in Indices :
               Valid(k, l) => /\ tt <= IntersectAt(k, l)
                              /\ (IntersectAt(k, l) = tt => idx <= k)
    ELSE idx = -1

\* C4: the scene query of a call, when the call returns and when it makes its
\* recursive call, selected the surface of the smallest valid t, the lowest
\* index among equal ones and never a surface whose t is at or below the
\* threshold; with no valid t the index is -1 and the call returned the
\* background.
C4_ClosestValidHit ==
    /\ pc = "return" =>
          /\ IsClosest(ray, smallest_idx, t)
          /\ smallest_idx = -1 => ret = Background(ray)
    /\ (pc = "recur" /\ stack # <<>>) =>
          /\ stack[Len(stack)].smallest_idx # -1
          /\ IsClosest(stack[Len(stack)].ray, stack[Len(stack)].smallest_idx,
                       stack[Len(stack)].t)

\* Two surfaces share the smallest valid t; the first was selected.
C4_Witness ==
    /\ pc = "return"
    /\ Len(hittables) = 2
    /\ Valid(0, ray) /\ Valid(1, ray)
    /\ IntersectAt(0, ray) = IntersectAt(1, ray)
    /\ smallest_idx = 0

----------------------------------------------------------------------------
(* C5 *)

\* The call that made the active call, and the surface it hit.
Caller == stack[Len(stack)]
CallerSphere == hittables[Caller.smallest_idx + 1]

\* The active call was just made with the ray get_next_ray returned for a
\* surface of material m.
JustScattered(m) == pc = "recur" /\ stack # <<>> /\ CallerSphere.material = m

\* dot(normal, d) > 0 at the hit of the caller: the ray leaves the sphere.
Exiting == fGt(dot(VSub(At(Caller.ray, Caller.t), CallerSphere.p), Caller.ray.d), 0)

\* C5, as claimed: leaving, the normal is flipped and the ratio is
\* refractive_index if hollow and 1/refractive_index otherwise; entering, it is
\* 1/refractive_index if hollow and refractive_index otherwise.
C5_RatioAsClaimed ==
    JustScattered("glass") =>
        IF Exiting
        THEN /\ normal_flipped
             /\ refraction_ratio =
                   IF CallerSphere.is_hollow THEN RefractiveIndex ELSE Inverse(RefractiveIndex)
        ELSE /\ ~normal_flipped
             /\ refraction_ratio =
                   IF CallerSphere.is_hollow THEN Inverse(RefractiveIndex) ELSE RefractiveIndex

\* C5, amended: leaving, the normal is flipped and the ratio is
\* 1/refractive_index if hollow and refractive_index otherwise; entering, it is
\* refractive_index if hollow and 1/refractive_index otherwise.
C5_RatioAsCoded ==
    JustScattered("glass") =>
        IF Exiting
        THEN /\ normal_flipped
             /\ refraction_ratio =
                   IF CallerSphere.is_hollow THEN Inverse(RefractiveIndex) ELSE RefractiveIndex
        ELSE /\ ~normal_flipped
             /\ refraction_ratio =
                   IF CallerSphere.is_hollow THEN RefractiveIndex ELSE Inverse(RefractiveIndex)

\* A ray left a hollow glass sphere.
C5_Witness == JustScattered("glass") /\ Exiting /\ CallerSphere.is_hollow

----------------------------------------------------------------------------
(* C6 *)

RECURSIVE SumColours(_)
SumColours(seq) ==
    IF seq = <<>> THEN Black
    ELSE CAdd(SumColours(SubSeq(seq, 1, Len(seq) - 1)), seq[Len(seq)].colour)

\* C6: the colour that is gamma-corrected and written is the sum of the
\* n_antialias sample colours of the pixel divided by n_antialias.
C6_AverageByN ==
    pc = "gamma" =>
        /\ Len(samples) = n_antialias
        /\ running_colour = CDivInt(SumColours(samples), n_antialias)

----------------------------------------------------------------------------
(* C7 *)

\* C7: once get_next_ray was reached with a material that is none of matte,
\* metal and glass, the program has stopped: no call is active or waiting whose
\* ray get_next_ray returned for that surface.
C7_UnknownMaterialIsFatal ==
    \A k \in 1 .. Len(stack) :
        hittables[stack[k].smallest_idx + 1].material \notin Materials => pc = "stopped"

----------------------------------------------------------------------------
(* C8 *)

\* The values of t a root of the scenes of the model can take.
TRange == (0 - 14) .. 14

\* The points of the line, on the grid, that lie in the closed ball of the
\* sphere.  For a unit direction its least and greatest elements are the two
\* roots of |ray(t) - p|^2 = r^2 rounded to the grid, and it is empty exactly
\* when the equation has no real root.
InBall(s, l) == {tt \in TRange : abs2(VSub(At(l, tt), s.p)) <= s.r * s.r}
Least(S) == CHOOSE x \in S : \A y \in S : x <= y
Greatest(S) == CHOOSE x \in S : \A y \in S : x >= y

\* intersects gives -1 with no real root, the smaller root if it is beyond the
\* threshold and the larger root in every other case; for a direction that is
\* no unit vector (the zero ray of an unknown material, a NaN ray) it gives NaN.
RootChosen(s, l) ==
    IF l.d \in Directions
    THEN LET inside == InBall(s, l)
         IN intersects(s, l) =
               IF inside = {} THEN -1
               ELSE IF Least(inside) > min_dist_threshold THEN Least(inside)
               ELSE Greatest(inside)
    ELSE IsNaN(intersects(s, l))

\* The ray starts at distance dist from the centre, outside the sphere, and is
\* aimed at the centre.
AimedAtCentre(s, l, dist) ==
    /\ l.d \in Directions
    /\ dist > s.r
    /\ l.p = VSub(s.p, VScale(dist, l.d))

\* The distance of the start of the line from the centre of the sphere, for a
\* line along an axis through the centre.
CentreDistance(s, l) ==
    LET v == VSub(s.p, l.p)
        size(x) == IF x < 0 THEN 0 - x ELSE x
    IN size(v[1]) + size(v[2]) + size(v[3])

\* The rays intersects was last called with: that of the call that returned,
\* and that of the call that made the active call.
QueriedRays ==
    (IF pc = "return" THEN {ray} ELSE {})
    \cup (IF pc = "recur" /\ stack # <<>> THEN {stack[Len(stack)].ray} ELSE {})

\* C8, as claimed: the root is chosen as described, and a ray that starts
\* outside at distance dist and is aimed at the centre gets dist - r.
C8_RootAsClaimed ==
    \A k \in 1 .. Len(hittables), l \in QueriedRays :
        /\ RootChosen(hittables[k], l)
        /\ LET dist == CentreDistance(hittables[k], l)
           IN AimedAtCentre(hittables[k], l, dist) =>
                  intersects(hittables[k], l) = dist - hittables[k].r

\* C8, amended: the root is chosen as described, and a ray of unit direction
\* that starts outside at distance dist and is aimed at the centre gets
\* dist - r when dist - r is beyond the threshold, and the larger root,
\* dist + r, when it is not.
C8_RootBeyondThreshold ==
    \A k \in 1 .. Len(hittables), l \in QueriedRays :
        /\ RootChosen(hittables[k], l)
        /\ LET dist == CentreDistance(hittables[k], l)
           IN AimedAtCentre(hittables[k], l, dist) =>
                  intersects(hittables[k], l) =
                     IF dist - hittables[k].r > min_dist_threshold
                     THEN dist - hittables[k].r
                     ELSE dist + hittables[k].r

\* A call queried a sphere its ray is aimed at from outside, from no further
\* than the threshold, and selected the far side of the sphere.
C8_Witness ==
    /\ pc = "return"
    /\ smallest_idx # -1
    /\ LET dist == CentreDistance(hittables[smallest_idx + 1], ray)
       IN /\ AimedAtCentre(hittables[smallest_idx + 1], ray, dist)
          /\ dist - hittables[smallest_idx + 1].r <= min_dist_threshold
          /\ t = dist + hittables[smallest_idx + 1].r

----------------------------------------------------------------------------
(* C9 *)

\* C9: every glass surface has reflectance (1,1,1), whatever was passed to its
\* constructor, and the call that hit a glass surface returns the colour of its
\* recursive call unchanged.
C9_GlassPassesThrough ==
    /\ [](\A k \in 1 .. Len(hittables) :
             hittables[k].material = "glass" => hittables[k].reflectance = White)
    /\ [][(pc = "return" /\ stack # <<>> /\ CallerSphere.material = "glass") => ret' = ret]_vars

\* A call that hit a glass sphere constructed with reflectance (0.8,0.8,0.8)
\* returned a colour other than black.
C9_Witness ==
    /\ pc = "return"
    /\ n > 1
    /\ smallest_idx # -1
    /\ hittables[smallest_idx + 1].material = "glass"
    /\ hittables[smallest_idx + 1].ctor \in {"full", "full_is_hollow"}
    /\ hittables[smallest_idx + 1].arg_reflectance = ReflectanceArg
    /\ ret \notin {Black, NaNVec}

----------------------------------------------------------------------------
(* C10 *)

\* C10: a sphere is hollow only when it was constructed with is_hollow passed;
\* a glass sphere of any other constructor uses the ratio of a sphere that is
\* not hollow.
C10_HollowOnlyWhenPassed ==
    /\ \A k \in 1 .. Len(hittables) :
          hittables[k].ctor # "full_is_hollow" => ~hittables[k].is_hollow
    /\ (JustScattered("glass") /\ CallerSphere.ctor # "full_is_hollow") =>
          refraction_ratio = IF Exiting THEN RefractiveIndex ELSE Inverse(RefractiveIndex)

----------------------------------------------------------------------------
(* C11 *)

\* The call ray_recur was entered with by main: the active call, or the
\* oldest call waiting.
PrimaryDepth == IF stack = <<>> THEN n ELSE stack[1].n

\* Every sample accumulated is of the ray of a call of the full depth that
\* was generated for the pixel (x, y).
SamplesOf(x, y) ==
    \A k \in 1 .. Len(samples) :
        /\ samples[k].x_pixel = x
        /\ samples[k].y_pixel = y
        /\ samples[k].depth = recur_max

\* C11: the accumulator of a pixel is private to the pixel. In the sample
\* loop it is the sum of the i samples taken so far, so (0,0,0) before the
\* first; every sample is the colour of a ray_recur call entered with the full
\* depth on a ray generated for the coordinates of the pixel; when the loop is
\* left exactly n_antialias samples were added; and the value that is
\* gamma-corrected and handed to set_pixel for the pixel is computed from
\* these samples alone.
C11_AccumulatorPrivate ==
    /\ pc \in {"sample", "recur", "return"} =>
          /\ Len(samples) = i
          /\ i <= n_antialias
          /\ running_colour = SumColours(samples)
          /\ SamplesOf(x_pixel, y_pixel)
    /\ pc \in {"recur", "return"} =>
          /\ PrimaryDepth = recur_max
          /\ primary = [x_pixel |-> x_pixel, y_pixel |-> y_pixel]
    /\ pc = "gamma" =>
          /\ Len(samples) = n_antialias
          /\ running_colour = CDivInt(SumColours(samples), Divisor)
          /\ SamplesOf(x_pixel, y_pixel)
    /\ (pc \in {"pixel", "done"} /\ set_pixel_log # <<>>) =>
          LET written == set_pixel_log[Len(set_pixel_log)]
          IN /\ Len(samples) = n_antialias
             /\ running_colour = CSqrt(CDivInt(SumColours(samples), Divisor))
             /\ \E x \in 0 .. (width - 1), y \in 0 .. (height - 1) :
                   written = <<x, OutputRow(y)>> /\ SamplesOf(x, y)

\* A second pixel was written from two samples of different colours, after a
\* first pixel whose samples were not black.
C11_Witness ==
    /\ pc = "pixel"
    /\ Len(set_pixel_log) = 2
    /\ Len(samples) = 2
    /\ samples[1].colour # samples[2].colour
    /\ samples[1].depth > 1
    /\ running_colour # Black

====
